---------------------------- MODULE Spec2Model ----------------------------
(***************************************************************************)
(* A model of agentic-cursorrules: the tree renderer, the focus resolver   *)
(* and the agent document emitter, over a small explicit filesystem.       *)
(*                                                                         *)
(* Strings are sequences of one-character strings, so that endswith,       *)
(* startswith, substring tests, replace and comparison are computed the    *)
(* way Python computes them.  A path is a sequence of names relative to    *)
(* the project root; str(path) joins the names with "/".                   *)
(* The box-drawing characters of the tree drawing are written with ASCII   *)
(* stand-ins:  "|" for U+2502,  "+" for U+251C,  "L" for U+2514 and        *)
(* "-" for U+2500.                                                         *)
(***************************************************************************)
EXTENDS Integers, Sequences, FiniteSets, TLC

VARIABLES
    fs,         \* the project directory: [dirs, files, locked, dtype]
    listing,    \* the order in which the OS lists directory entries
    cfg,        \* the generator's configuration and the .gitignore
    render,     \* the last generate_tree / generate_rich_tree call
    resolve,    \* the last find_focus_dirs call
    emit,       \* the last generate_agent_files call
    disk,       \* the files written: tree snapshots and agent documents
    conf,       \* the configuration files of the config directory
    update,     \* the last ConfigUpdater.from_tree_text call
    run         \* main: its arguments, position and exit status

vars == <<fs, listing, cfg, render, resolve, emit, disk, conf, update, run>>

Null == "null"

---------------------------------------------------------------------------
\* Strings

\* The characters the model uses, in code-point order.
CharOrder ==
    <<".", "/", "D", "_", "a", "b", "c", "d", "e", "f", "g", "i", "l", "m",
      "n", "o", "p", "r", "s", "t", "u", "x", "y">>

Ord(c) == CHOOSE i \in 1..Len(CharOrder) : CharOrder[i] = c

\* Python's str < str: lexicographic by code point, a proper prefix first.
RECURSIVE StrLT(_, _)
StrLT(s, t) ==
    IF t = <<>> THEN FALSE
    ELSE IF s = <<>> THEN TRUE
    ELSE IF Head(s) = Head(t) THEN StrLT(Tail(s), Tail(t))
    ELSE Ord(Head(s)) < Ord(Head(t))

\* str.startswith
startswith(s, p) ==
    /\ Len(p) <= Len(s)
    /\ SubSeq(s, 1, Len(p)) = p

\* str.endswith
endswith(s, x) ==
    /\ Len(x) <= Len(s)
    /\ SubSeq(s, Len(s) - Len(x) + 1, Len(s)) = x

\* sub in s
contains(s, sub) ==
    \E i \in 0..(Len(s) - Len(sub)) : SubSeq(s, i + 1, i + Len(sub)) = sub

\* "/".join(parts)
RECURSIVE Join(_)
Join(parts) ==
    IF parts = <<>> THEN <<>>
    ELSE IF Len(parts) = 1 THEN parts[1]
    ELSE parts[1] \o <<"/">> \o Join(Tail(parts))

\* str(path) of a path relative to the project root; the root itself is "."
RelStr(path) == IF path = <<>> THEN <<".">> ELSE Join(path)

Range(seq) == {seq[i] : i \in DOMAIN seq}

---------------------------------------------------------------------------
\* The filesystem

is_dir(p) == p \in fs.dirs
is_file(p) == p \in fs.files
exists(p) == is_dir(p) \/ is_file(p)

PathName(p) == p[Len(p)]
Parent(p) == SubSeq(p, 1, Len(p) - 1)
Children(d) == {p \in fs.dirs \cup fs.files : Len(p) = Len(d) + 1 /\ Parent(p) = d}

\* The entries of a set of sibling paths as a sequence, ascending by name.
RECURSIVE Ascending(_)
Ascending(S) ==
    IF S = {} THEN <<>>
    ELSE LET m == CHOOSE p \in S :
                     \A q \in S \ {p} : StrLT(PathName(p), PathName(q))
         IN  <<m>> \o Ascending(S \ {m})

Reverse(seq) == [i \in 1..Len(seq) |-> seq[Len(seq) + 1 - i]]

\* Path.iterdir / os.scandir: the entries of d in the order the OS yields
\* them, which the program does not control.
iterdir(d) ==
    IF listing = "asc" THEN Ascending(Children(d))
    ELSE Reverse(Ascending(Children(d)))


---------------------------------------------------------------------------
\* ProjectTreeGenerator: configuration and the ignore matcher

\* project_root.name
ProjectName == <<"p">>

\* Path.name
NameOf(p) == IF p = <<>> THEN ProjectName ELSE PathName(p)

\* __init__: the ignore rules come from the project's .gitignore when it has
\* one, and otherwise from a temporary file of one "<name>/" line per
\* configured exclude directory.  cfg.gitignore.rules are the directory
\* names N of the "N/" lines of the project's own .gitignore.
IgnoreRules ==
    IF cfg.gitignore.present THEN cfg.gitignore.rules ELSE cfg.EXCLUDE_DIRS

\* self.matches(str(item)): a rule "N/" matches every path, taken relative
\* to the project root, that has a component N.
matches(item) == \E i \in 1..Len(item) : item[i] \in IgnoreRules

---------------------------------------------------------------------------
\* ProjectTreeGenerator.generate_tree

MidBranch  == <<"+", "-", "-", " ">>
LastBranch == <<"L", "-", "-", " ">>
MidIndent  == <<"|", " ", " ", " ">>
LastIndent == <<" ", " ", " ", " ">>

\* key=lambda x: (not x.is_file(), x.name), compared as Python compares
\* tuples: False before True, then the names.
SortKeyLT_DirsFirst(x, y) ==
    IF is_file(x) # is_file(y) THEN ~is_file(x)
    ELSE StrLT(PathName(x), PathName(y))

SortKeyLT_FlagOnly(x, y) == is_file(x) /\ ~is_file(y)

SortKeyLT(x, y) ==
    IF (~is_file(x)) # (~is_file(y)) THEN is_file(x)
    ELSE StrLT(PathName(x), PathName(y))

\* list.sort is stable: an item goes after the items whose key is not greater.
RECURSIVE InsertByKey(_, _)
InsertByKey(done, x) ==
    IF done = <<>> THEN <<x>>
    ELSE IF SortKeyLT(x, Head(done)) THEN <<x>> \o done
    ELSE <<Head(done)>> \o InsertByKey(Tail(done), x)

RECURSIVE sorted(_)
sorted(items) ==
    IF items = <<>> THEN <<>>
    ELSE InsertByKey(sorted(SubSeq(items, 1, Len(items) - 1)), items[Len(items)])

\* The condition of lines 61-64 under which an item is passed over.
TreeOmits(call, item) ==
    \/ PathName(item) \in cfg.EXCLUDE_DIRS
    \/ matches(item)
    \/ RelStr(item) \in call.skip_dirs
    \/ /\ is_dir(item)
       /\ \E cp \in call.config_paths : startswith(cp, RelStr(item))

extensions_to_check_ConfigOnly(call) == cfg.INCLUDE_EXTENSIONS

extensions_to_check(call) ==
    IF call.file_types # {} THEN call.file_types ELSE cfg.INCLUDE_EXTENSIONS

TreeLine(prefix, is_last, item) ==
    prefix \o (IF is_last THEN LastBranch ELSE MidBranch) \o PathName(item)
           \o (IF is_dir(item) THEN <<"/">> ELSE <<>>)

beyond_depth_OneDeeper(depth, max_depth) == depth > max_depth + 1

\* Line 54: depth > max_depth
beyond_depth(depth, max_depth) == depth > max_depth

RECURSIVE generate_tree_walk(_, _, _, _)
RECURSIVE generate_tree_items(_, _, _, _, _)

\* The body of the for loop of _generate_tree, from item i on.
generate_tree_items(call, items, i, prefix, depth) ==
    IF i > Len(items) THEN <<>>
    ELSE
      LET item    == items[i]
          is_last == (i = Len(items))
          rest    == generate_tree_items(call, items, i + 1, prefix, depth)
      IN  IF TreeOmits(call, item) THEN rest
          ELSE IF is_dir(item) THEN
              <<TreeLine(prefix, is_last, item)>>
              \o generate_tree_walk(call, item,
                     prefix \o (IF is_last THEN LastIndent ELSE MidIndent),
                     depth + 1)
              \o rest
          ELSE IF \E ext \in extensions_to_check(call) :
                      endswith(PathName(item), ext)
              THEN <<TreeLine(prefix, is_last, item)>> \o rest
          ELSE rest

\* _generate_tree(dir_path, prefix, depth): the lines it appends.
generate_tree_walk(call, dir_path, prefix, depth) ==
    IF beyond_depth(depth, call.max_depth) THEN <<>>
    ELSE generate_tree_items(call, sorted(iterdir(dir_path)), 1, prefix, depth)

generate_tree(call) == generate_tree_walk(call, call.directory, <<>>, 0)

---------------------------------------------------------------------------
\* ProjectTreeGenerator.generate_rich_tree

\* A rich.tree.Tree node: its label (the icon of the markup and the name
\* the markup shows) and its children in the order they were added.
RichNode(icon, name, children) ==
    [icon |-> icon, name |-> name, children |-> children]

RichOmits_NoSkip(call, item) ==
    \/ PathName(item) \in cfg.EXCLUDE_DIRS
    \/ matches(item)
    \/ /\ is_dir(item)
       /\ \E cp \in call.config_paths : startswith(cp, RelStr(item))

\* The condition of lines 100-103.
RichOmits(call, item) ==
    \/ PathName(item) \in cfg.EXCLUDE_DIRS
    \/ matches(item)
    \/ RelStr(item) \in call.skip_dirs
    \/ /\ is_dir(item)
       /\ \E cp \in call.config_paths : startswith(cp, RelStr(item))

RECURSIVE build_tree(_, _, _)
RECURSIVE build_tree_items(_, _, _, _)

build_tree_items(call, items, i, depth) ==
    IF i > Len(items) THEN <<>>
    ELSE
      LET item == items[i]
          rest == build_tree_items(call, items, i + 1, depth)
      IN  IF RichOmits(call, item) THEN rest
          ELSE IF is_dir(item) THEN
              <<RichNode("file_folder", PathName(item),
                         build_tree(call, item, depth + 1))>> \o rest
          ELSE IF \E ext \in (IF call.file_types # {} THEN call.file_types
                              ELSE cfg.INCLUDE_EXTENSIONS) :
                      endswith(PathName(item), ext)
              THEN <<RichNode("page_facing_up", PathName(item), <<>>)>> \o rest
          ELSE rest

\* _build_tree(dir_path, parent_tree, depth): the nodes it adds to parent_tree.
build_tree(call, dir_path, depth) ==
    IF depth > call.max_depth THEN <<>>
    ELSE build_tree_items(call, sorted(iterdir(dir_path)), 1, depth)

generate_rich_tree(call) ==
    RichNode("open_file_folder", NameOf(call.directory),
             build_tree(call, call.directory, 0))

---------------------------------------------------------------------------
\* The filesystem as find_focus_dirs sees it.  fs.locked are the directories
\* the process may list but not search: a stat of anything inside raises
\* PermissionError and a scandir of a directory inside fails.  fs.dtype says
\* whether a listing tells directories from files without a stat.

\* The absolute path string str(d) of a project path.
AbsStr(p) ==
    <<"/">> \o ProjectName \o (IF p = <<>> THEN <<>> ELSE <<"/">> \o Join(p))

\* os.stat(directory / p): "dir", "file", "missing" or "error".  Path.exists
\* and Path.is_dir turn "missing" into False and let "error" propagate.
RECURSIVE Stat(_)
Stat(p) ==
    IF p = <<>> THEN "dir"
    ELSE LET up == Stat(Parent(p))
         IN  IF up = "error" THEN "error"
             ELSE IF up # "dir" THEN "missing"
             ELSE IF Parent(p) \in fs.locked THEN "error"
             ELSE IF p \in fs.dirs THEN "dir"
             ELSE IF p \in fs.files THEN "file"
             ELSE "missing"

\* os.scandir(d) succeeds: every directory above d may be searched.
CanList(d) == \A k \in 0..(Len(d) - 1) : SubSeq(d, 1, k) \notin fs.locked

\* os.walk's split of a listing: an entry whose is_dir() raises counts as a
\* file.
WalkSeesDir(item) ==
    /\ item \in fs.dirs
    /\ (fs.dtype \/ Parent(item) \notin fs.locked)

walk_dirs(root) == SelectSeq(iterdir(root), WalkSeesDir)
walk_files(root) == SelectSeq(iterdir(root), LAMBDA item : ~WalkSeesDir(item))

\* _find_code_directories: the directory names its walk does not enter.
code_exclude_dirs ==
    { <<"n","o","d","e","_","m","o","d","u","l","e","s">>, <<"d","i","s","t">>,
      <<"b","u","i","l","d">>, <<".","g","i","t">>,
      <<"_","_","p","y","c","a","c","h","e","_","_">>, <<"v","e","n","v">>,
      <<"e","n","v">>, <<".","n","e","x","t">>, <<"o","u","t">>,
      <<"c","o","v","e","r","a","g","e">>, <<"t","m","p">>, <<"t","e","m","p">> }

\* dirs[:] = [d for d in dirs if d not in exclude_dirs and not d.startswith('.')]
code_walk_keeps(d) == d \notin code_exclude_dirs /\ ~startswith(d, <<".">>)

\* os.walk(top), top-down, errors ignored: the directories it yields, in
\* order.  With pruned, the caller filters dirs[:] as _find_code_directories
\* does; find_focus_dirs leaves dirs alone.
RECURSIVE os_walk(_, _)
RECURSIVE os_walk_each(_, _, _)
os_walk_each(dirs, i, pruned) ==
    IF i > Len(dirs) THEN <<>>
    ELSE (IF pruned => code_walk_keeps(PathName(dirs[i]))
          THEN os_walk(dirs[i], pruned) ELSE <<>>)
         \o os_walk_each(dirs, i + 1, pruned)

os_walk(top, pruned) ==
    IF ~CanList(top) THEN <<>>
    ELSE <<top>> \o os_walk_each(walk_dirs(top), 1, pruned)

---------------------------------------------------------------------------
\* ProjectTreeGenerator.find_focus_dirs

\* fd.replace('_', '/')
replace_underscores(fd) ==
    [i \in 1..Len(fd) |-> IF fd[i] = "_" THEN "/" ELSE fd[i]]

\* Path(s).parts of a relative path string: the segments between slashes,
\* empty segments dropped.
RECURSIVE PathParts(_, _)
PathParts(str, cur) ==
    IF str = <<>> THEN (IF cur = <<>> THEN <<>> ELSE <<cur>>)
    ELSE IF Head(str) = "/"
         THEN (IF cur = <<>> THEN <<>> ELSE <<cur>>) \o PathParts(Tail(str), <<>>)
    ELSE PathParts(Tail(str), Append(cur, Head(str)))

\* Lines 126-134.
normalize(fd) ==
    IF contains(fd, <<"_", "_">>) THEN PathParts(fd, <<>>)
    ELSE IF contains(fd, <<"_">>) /\ ~contains(fd, <<"/">>)
         THEN PathParts(replace_underscores(fd), <<>>)
    ELSE PathParts(fd, <<>>)

\* normalized_focus_dirs.sort(key=lambda p: len(p.parts)), a stable sort.
RECURSIVE InsertByParts(_, _)
InsertByParts(done, x) ==
    IF done = <<>> THEN <<x>>
    ELSE IF Len(x) < Len(Head(done)) THEN <<x>> \o done
    ELSE <<Head(done)>> \o InsertByParts(Tail(done), x)

RECURSIVE sort_by_parts(_)
sort_by_parts(paths) ==
    IF paths = <<>> THEN <<>>
    ELSE InsertByParts(sort_by_parts(SubSeq(paths, 1, Len(paths) - 1)),
                       paths[Len(paths)])

normalized_focus_dirs(focus_dirs) ==
    sort_by_parts([i \in 1..Len(focus_dirs) |-> normalize(focus_dirs[i])])

\* Lines 157-163: the first directory one level below the root, in listing
\* order, that holds a directory called name: <<it>>, <<>> when there is
\* none, "error" when a stat raises on the way.
RECURSIVE nested_match(_, _, _)
nested_match(items, i, name) ==
    IF i > Len(items) THEN <<>>
    ELSE IF Stat(items[i]) # "dir" THEN nested_match(items, i + 1, name)
    ELSE LET st == Stat(Append(items[i], name))
         IN  IF st = "error" THEN "error"
             ELSE IF st = "dir" THEN <<Append(items[i], name)>>
             ELSE nested_match(items, i + 1, name)

\* if depth > 3: continue
WalkDepthLimit == 3

\* Lines 169-183: the first directory called name among the dirs of the
\* roots os.walk yields at depth <= 3.
RECURSIVE walk_match(_, _, _)
walk_match(roots, i, name) ==
    IF i > Len(roots) THEN <<>>
    ELSE IF Len(roots[i]) > WalkDepthLimit THEN walk_match(roots, i + 1, name)
    ELSE IF \E j \in 1..Len(walk_dirs(roots[i])) :
                PathName(walk_dirs(roots[i])[j]) = name
         THEN <<Append(roots[i], name)>>
    ELSE walk_match(roots, i + 1, name)

\* Line 166: not any(focus_path.name in str(d) for d in found_dirs)
still_not_found(name, found_dirs) ==
    ~\E k \in 1..Len(found_dirs) : contains(AbsStr(found_dirs[k]), name)

Outcome(found, how, dir) == [found |-> found, how |-> how, dir |-> dir]

\* The body of the try block for one focus path: the new found_dirs, the
\* message printed and the directory appended.
resolve_one(focus_path, found_dirs) ==
    LET name == focus_path[Len(focus_path)]
        s1   == Stat(focus_path)
        s2   == Stat(<<name>>)
        n3   == nested_match(iterdir(<<>>), 1, name)
    IN  IF s1 = "error" THEN Outcome(found_dirs, "error", <<>>)
        ELSE IF s1 = "dir"
            THEN Outcome(Append(found_dirs, focus_path), "exact", <<focus_path>>)
        ELSE IF s2 = "error" THEN Outcome(found_dirs, "error", <<>>)
        ELSE IF s2 = "dir"
            THEN Outcome(Append(found_dirs, <<name>>), "name", <<<<name>>>>)
        ELSE IF n3 = "error" THEN Outcome(found_dirs, "error", <<>>)
        ELSE IF n3 # <<>>
            THEN Outcome(Append(found_dirs, n3[1]), "nested", n3)
        ELSE IF still_not_found(name, found_dirs)
            THEN LET m == walk_match(os_walk(<<>>, FALSE), 1, name)
                 IN  IF m # <<>> THEN Outcome(Append(found_dirs, m[1]), "walk", m)
                     ELSE Outcome(found_dirs, "none", <<>>)
        ELSE Outcome(found_dirs, "none", <<>>)

\* except Exception: the message is printed and the for loop goes on with
\* the next focus path.
next_after_error_Abort(paths, i) == Len(paths) + 1

next_after_error(paths, i) == i + 1

\* The for loop of lines 140-186 from focus path i on.
RECURSIVE resolve_loop(_, _, _, _)
resolve_loop(paths, i, found_dirs, log) ==
    IF i > Len(paths) THEN [found |-> found_dirs, log |-> log]
    ELSE LET r == resolve_one(paths[i], found_dirs)
             entry == [path |-> paths[i], how |-> r.how, dir |-> r.dir]
         IN  resolve_loop(paths,
                          IF r.how = "error" THEN next_after_error(paths, i)
                          ELSE i + 1,
                          r.found, Append(log, entry))

---------------------------------------------------------------------------
\* ProjectTreeGenerator._find_code_directories

code_extensions ==
    { <<".","p","y">>, <<".","j","s">>, <<".","j","s","x">>, <<".","t","s">>,
      <<".","t","s","x">>, <<".","h","t","m","l">>, <<".","c","s","s">>,
      <<".","s","c","s","s">>, <<".","j","a","v","a">>, <<".","c">>,
      <<".","c","p","p">>, <<".","h">>, <<".","c","s">>, <<".","g","o">>,
      <<".","r","b">>, <<".","p","h","p">>, <<".","v","u","e">>,
      <<".","s","v","e","l","t","e">>, <<".","j","s","o","n">>,
      <<".","y","a","m","l">>, <<".","y","m","l">>, <<".","m","d">> }

\* if depth > 4: continue
CodeDepthLimit == 4

\* max_dirs=5
MaxDirs == 5

too_deep_OffByOne(root) == Len(root) >= CodeDepthLimit

too_deep(root) == Len(root) > CodeDepthLimit

\* sum(1 for f in files if any(f.endswith(ext) for ext in code_extensions))
code_file_count(root) ==
    Cardinality({j \in 1..Len(walk_files(root)) :
        \E ext \in code_extensions :
            endswith(PathName(walk_files(root)[j]), ext)})

\* dir_counts, in insertion order: the yielded directories that are not too
\* deep, are not the root and hold a code file.
RECURSIVE dir_counts(_, _)
dir_counts(roots, i) ==
    IF i > Len(roots) THEN <<>>
    ELSE (IF /\ ~too_deep(roots[i])
             /\ code_file_count(roots[i]) > 0
             /\ roots[i] # <<>>
          THEN <<[rel_path |-> roots[i], count |-> code_file_count(roots[i])]>>
          ELSE <<>>)
         \o dir_counts(roots, i + 1)

\* sorted(dir_counts.items(), key=lambda x: -x[1]), a stable sort.
RECURSIVE InsertByCount(_, _)
InsertByCount(done, x) ==
    IF done = <<>> THEN <<x>>
    ELSE IF x.count > Head(done).count THEN <<x>> \o done
    ELSE <<Head(done)>> \o InsertByCount(Tail(done), x)

RECURSIVE sort_by_count(_)
sort_by_count(items) ==
    IF items = <<>> THEN <<>>
    ELSE InsertByCount(sort_by_count(SubSeq(items, 1, Len(items) - 1)),
                       items[Len(items)])

find_code_directories ==
    LET counts   == dir_counts(os_walk(<<>>, TRUE), 1)
        ranked   == sort_by_count(counts)
        top_dirs == SubSeq(ranked, 1, IF Len(ranked) < MaxDirs THEN Len(ranked)
                                      ELSE MaxDirs)
        present  == SelectSeq(top_dirs, LAMBDA t : Stat(t.rel_path) # "missing")
    IN  IF \E k \in 1..Len(top_dirs) : Stat(top_dirs[k].rel_path) = "error"
        THEN <<>>
        ELSE [k \in 1..Len(present) |-> present[k].rel_path]

\* find_focus_dirs(project_dir, focus_dirs): the list returned, the
\* messages of the loop, and whether the fallback scan ran.
find_focus_dirs(focus_dirs) ==
    LET r == resolve_loop(normalized_focus_dirs(focus_dirs), 1, <<>>, <<>>)
    IN  [found    |-> IF r.found = <<>> THEN find_code_directories ELSE r.found,
         log      |-> r.log,
         fallback |-> r.found = <<>>]

---------------------------------------------------------------------------
\* agent_generator.generate_agent_files

\* f"agent_{parts[0]}_{parts[-1]}.md" and f"agent_{dir_name}.md"
agent_file(stem) == <<"a", "g", "e", "n", "t", "_">> \o stem \o <<".", "m", "d">>

\* Lines 35-37: parent_name, <<>> for None.
parent_name_of(rel_path) ==
    IF Len(rel_path) >= 2 THEN <<rel_path[Len(rel_path) - 1]>> ELSE <<>>

agent_name_LastOnly(rel_path) == agent_file(NameOf(rel_path))

\* Lines 44-51: the name of the agent file of a directory of the project.
agent_name(rel_path) ==
    IF contains(RelStr(rel_path), <<"/">>)
    THEN agent_file(rel_path[1] \o <<"_">> \o rel_path[Len(rel_path)])
    ELSE IF /\ parent_name_of(rel_path) # <<>>
            /\ parent_name_of(rel_path)[1] # ProjectName
            /\ ~startswith(NameOf(rel_path), <<"_", "_">>)
    THEN agent_file(parent_name_of(rel_path)[1] \o <<"_">> \o NameOf(rel_path))
    ELSE agent_file(NameOf(rel_path))

\* Lines 59-65: the text of tree_files/tree_<dir_name>.txt, empty when the
\* file is missing.
tree_content_of(files, dir_name) ==
    IF \E t \in files.tree_files : t.name = dir_name
    THEN (CHOOSE t \in files.tree_files : t.name = dir_name).text
    ELSE <<>>

\* Lines 68-77: the document, as the parts the template puts together.
agent_content(files, rel_path) ==
    [dir_name |-> NameOf(rel_path),
     within |-> IF /\ parent_name_of(rel_path) # <<>>
                   /\ parent_name_of(rel_path)[1] # ProjectName
                THEN parent_name_of(rel_path) ELSE <<>>,
     tree_content |-> tree_content_of(files, NameOf(rel_path))]

\* Lines 80-82: output_path = project_dir / agent_name is opened for writing
\* and the content written; a document of that name there is replaced.
\* files.writes is the order in which the names were written.
write_doc(files, name, content) ==
    [files EXCEPT
        !.docs = {d \in files.docs : ~(d.name = name /\ d.at = "project_dir")}
                 \cup {[name |-> name, at |-> "project_dir",
                         content |-> content]},
        !.writes = Append(files.writes, name)]

already_created_Never(name, created_files) == FALSE

\* Line 53: agent_name in created_files
already_created(name, created_files) == name \in created_files

\* The for loop of lines 15-90 from directory i on: the files after it and
\* the message printed for every directory.
RECURSIVE agent_loop(_, _, _, _, _)
agent_loop(focus_dirs, i, created_files, files, log) ==
    IF i > Len(focus_dirs) THEN [files |-> files, log |-> log]
    ELSE
      LET dir_path == PathParts(focus_dirs[i], <<>>)
          name == agent_name(dir_path)
          Said(how) == Append(log, [dir_path |-> dir_path, how |-> how,
                                    agent_name |-> name])
      IN  IF Stat(dir_path) = "error"
          THEN agent_loop(focus_dirs, i + 1, created_files, files, Said("error"))
          ELSE IF Stat(dir_path) # "dir"
          THEN agent_loop(focus_dirs, i + 1, created_files, files, Said("missing"))
          ELSE IF already_created(name, created_files)
          THEN agent_loop(focus_dirs, i + 1, created_files, files,
                          Said("duplicate"))
          ELSE agent_loop(focus_dirs, i + 1, created_files \cup {name},
                          write_doc(files, name, agent_content(files, dir_path)),
                          Said("created"))

\* generate_agent_files(focus_dirs, config_dir, project_dir, output_dir):
\* output_dir is not used by the body.
generate_agent_files(focus_dirs, output_dir) ==
    agent_loop(focus_dirs, 1, {}, disk, <<>>)

---------------------------------------------------------------------------
\* config_updater.ConfigUpdater

\* self.defaults, lines 14-27.
defaults_important_dirs ==
    <<
      <<"c", "o", "m", "p", "o", "n", "e", "n", "t", "s">>,
      <<"p", "a", "g", "e", "s">>, <<"a", "p", "p">>, <<"s", "r", "c">>,
      <<"l", "i", "b">>, <<"u", "t", "i", "l", "s">>,
      <<"h", "o", "o", "k", "s">>, <<"s", "t", "y", "l", "e", "s">>,
      <<"p", "u", "b", "l", "i", "c">>, <<"a", "s", "s", "e", "t", "s">>,
      <<"l", "a", "y", "o", "u", "t", "s">>,
      <<"s", "e", "r", "v", "i", "c", "e", "s">>,
      <<"c", "o", "n", "t", "e", "x", "t">>, <<"t", "y", "p", "e", "s">> >>

defaults_exclude_dirs ==
    <<
      <<"n", "o", "d", "e", "_", "m", "o", "d", "u", "l", "e", "s">>,
      <<"d", "i", "s", "t">>, <<"b", "u", "i", "l", "d">>,
      <<".", "n", "e", "x", "t">>, <<"o", "u", "t">>,
      <<"_", "_", "p", "y", "c", "a", "c", "h", "e", "_", "_">>,
      <<"v", "e", "n", "v">>, <<"e", "n", "v">>, <<".", "g", "i", "t">>,
      <<"c", "o", "v", "e", "r", "a", "g", "e">>, <<"t", "m", "p">>,
      <<"t", "e", "m", "p">> >>

defaults_include_extensions ==
    <<
      <<".", "p", "y">>, <<".", "t", "s">>, <<".", "t", "s", "x">>,
      <<".", "j", "s">>, <<".", "j", "s", "x">>, <<".", "j", "s", "o", "n">>,
      <<".", "c", "s", "s">>, <<".", "s", "c", "s", "s">>,
      <<".", "h", "t", "m", "l">>, <<".", "m", "d">>, <<".", "v", "u", "e">>,
      <<".", "s", "v", "e", "l", "t", "e">> >>

\* Line 73.
common_top ==
    <<
      <<"a", "p", "i">>, <<"a", "p", "p">>, <<"s", "r", "c">>,
      <<"b", "a", "c", "k", "e", "n", "d">>,
      <<"f", "r", "o", "n", "t", "e", "n", "d">>,
      <<"s", "e", "r", "v", "e", "r">>, <<"c", "l", "i", "e", "n", "t">> >>

\* Line 94.
media_dirs ==
    {
      <<"f", "o", "n", "t", "s">>, <<"i", "m", "a", "g", "e", "s">>,
      <<"i", "m", "g">>, <<"m", "e", "d", "i", "a">>,
      <<"s", "t", "a", "t", "i", "c">> }

\* A YAML document of the config directory: "absent" when there is no file,
\* "mapping" with the keys it has, "other" for content that is not a mapping
\* (a list, a scalar).  A key that is missing has the value <<>>;
\* focus_is_list tells whether the value of tree_focus is a list.
ConfigKeys ==
    {"project_title", "tree_focus", "exclude_dirs", "important_dirs",
     "include_extensions"}

NoDoc ==
    [kind |-> "absent", keys |-> {}, project_title |-> <<>>,
     tree_focus |-> <<>>, focus_is_list |-> TRUE, exclude_dirs |-> <<>>,
     important_dirs |-> <<>>, include_extensions |-> <<>>]

EmptyMapping == [NoDoc EXCEPT !.kind = "mapping"]

OtherDoc == [NoDoc EXCEPT !.kind = "other"]

\* The prefix class of dir_pattern: the box-drawing characters and
\* whitespace.
IsTreeChar(c) == c \in {"|", "+", "L", "-", " "}

\* The index of the first "/" of line at or after s, 0 when there is none.
RECURSIVE first_slash(_, _)
first_slash(line, s) ==
    IF s > Len(line) THEN 0
    ELSE IF line[s] = "/" THEN s
    ELSE first_slash(line, s + 1)

\* The end of the longest run of prefix characters of line[t..k-1].
RECURSIVE tree_chars_end(_, _, _)
tree_chars_end(line, t, k) ==
    IF t >= k THEN k
    ELSE IF IsTreeChar(line[t]) THEN tree_chars_end(line, t + 1, k)
    ELSE t

\* dir_pattern.search(line) from position s: <<group 1>> of the leftmost
\* match of [prefix]*([^/\n]+)/ , <<>> when nothing matches.  The prefix is
\* greedy and gives back one character when it would leave the group empty.
RECURSIVE dir_pattern_search(_, _)
dir_pattern_search(line, s) ==
    LET k == first_slash(line, s)
    IN  IF k = 0 THEN <<>>
        ELSE IF k = s THEN dir_pattern_search(line, s + 1)
        ELSE LET t == tree_chars_end(line, s, k)
             IN  <<SubSeq(line, IF t = k THEN k - 1 ELSE t, k - 1)>>

\* str.strip
RECURSIVE strip(_)
strip(str) ==
    IF str = <<>> THEN <<>>
    ELSE IF Head(str) = " " THEN strip(Tail(str))
    ELSE IF str[Len(str)] = " " THEN strip(SubSeq(str, 1, Len(str) - 1))
    ELSE str

\* Lines 47-60: the directory names of a tree text, given as its lines.
parse_directories(tree_text) ==
    LET groups == {dir_pattern_search(tree_text[i], 1) :
                      i \in DOMAIN tree_text} \ {<<>>}
        names  == {strip(g[1]) : g \in groups}
    IN  {n \in names : n # <<>> /\ ~startswith(n, <<".">>)}

\* sorted(names) of distinct strings.
RECURSIVE sorted_names(_)
sorted_names(names) ==
    IF names = {} THEN <<>>
    ELSE LET m == CHOOSE x \in names : \A y \in names \ {x} : StrLT(x, y)
         IN  <<m>> \o sorted_names(names \ {m})

still_empty_Always(focus_dirs) == TRUE

\* Line 79: not focus_dirs
still_empty(focus_dirs) == focus_dirs = {}

\* Lines 62-83.
identify_focus_dirs(directories) ==
    LET important == Range(defaults_important_dirs)
        first     == {d \in directories : d \in important}
        second    == first \cup {d \in Range(common_top) :
                                    d \in directories /\ d \notin first}
        third     == IF still_empty(second)
                     THEN {d \in directories :
                              d \notin Range(defaults_exclude_dirs)}
                     ELSE second
    IN  sorted_names(third)

\* str.lower on the characters of the model.
lower(str) == [i \in 1..Len(str) |-> IF str[i] = "D" THEN "d" ELSE str[i]]

\* Lines 85-97.
identify_exclude_dirs(directories) ==
    sorted_names(
        {d \in directories :
            \/ lower(d) \in {lower(e) : e \in Range(defaults_exclude_dirs)}
            \/ lower(d) \in media_dirs})

exclude_union_NewOnly(existing, exclude_dirs) == exclude_dirs

\* Lines 119-120: sorted(set(config['exclude_dirs']).union(exclude_dirs))
exclude_union(existing, exclude_dirs) ==
    sorted_names(Range(existing) \cup Range(exclude_dirs))

\* Lines 99-129: the new configuration, of kind "raised" when the existing
\* content is not a mapping (config.get fails).  An absent or empty file counts as
\* the empty mapping.
create_config(config, project_name, focus_dirs, exclude_dirs) ==
    IF config.kind = "other" THEN [NoDoc EXCEPT !.kind = "raised"]
    ELSE
      LET old == IF config.kind = "absent" THEN EmptyMapping ELSE config
      IN  [kind |-> "mapping",
           keys |-> ConfigKeys,
           project_title |-> project_name,
           tree_focus |-> focus_dirs,
           focus_is_list |-> TRUE,
           exclude_dirs |->
               IF "exclude_dirs" \in old.keys
               THEN exclude_union(old.exclude_dirs, exclude_dirs)
               ELSE exclude_dirs,
           important_dirs |->
               IF "important_dirs" \in old.keys THEN old.important_dirs
               ELSE defaults_important_dirs,
           include_extensions |->
               IF "include_extensions" \in old.keys
               THEN old.include_extensions
               ELSE defaults_include_extensions]

\* Lines 29-45: the content of config.yaml afterwards and the value
\* returned; [raised |-> TRUE] when _create_config raises.
from_tree_text(config, tree_text, project_name) ==
    LET directories == parse_directories(tree_text)
        made == create_config(config, project_name,
                              identify_focus_dirs(directories),
                              identify_exclude_dirs(directories))
    IN  IF made.kind = "raised"
        THEN [raised |-> TRUE, ok |-> FALSE, yaml |-> config,
              directories |-> directories]
        ELSE [raised |-> FALSE, ok |-> TRUE, yaml |-> made,
              directories |-> directories]

---------------------------------------------------------------------------
\* The renderer's specification: a project directory, a configuration and a
\* listing order are drawn, and the two renderers are called on them.

n_src == <<"s", "r", "c">>
n_lib == <<"l", "i", "b">>
n_out == <<"o", "u", "t">>
n_m_py == <<"m", ".", "p", "y">>
n_u_log == <<"u", ".", "l", "o", "g">>
n_o_py == <<"o", ".", "p", "y">>
n_r_log == <<"r", ".", "l", "o", "g">>
x_py == <<".", "p", "y">>
x_log == <<".", "l", "o", "g">>

DirEntry(p) == [path |-> p, dir |-> TRUE]
FileEntry(p) == [path |-> p, dir |-> FALSE]

MkFs(entries) ==
    [dirs   |-> {<<>>} \cup {e.path : e \in {x \in entries : x.dir}},
     files  |-> {e.path : e \in {x \in entries : ~x.dir}},
     locked |-> {},
     dtype  |-> TRUE]

\* Every entry lies in a directory of the filesystem.
WellFormed(f) ==
    \A p \in (f.dirs \cup f.files) \ {<<>>} : Parent(p) \in f.dirs

TreeBase == {DirEntry(<<n_src>>), FileEntry(<<n_src, n_m_py>>)}

TreeUnits ==
    { {FileEntry(<<n_src, n_r_log>>)},
      {DirEntry(<<n_src, n_lib>>), FileEntry(<<n_src, n_lib, n_u_log>>)},
      {DirEntry(<<n_src, n_lib, n_out>>),
       FileEntry(<<n_src, n_lib, n_out, n_o_py>>)},
      {DirEntry(<<n_src, n_out>>), FileEntry(<<n_src, n_out, n_o_py>>)},
      {DirEntry(<<n_out>>), FileEntry(<<n_out, n_o_py>>)} }

TreeFilesystems ==
    {f \in {MkFs(TreeBase \cup UNION U) : U \in SUBSET TreeUnits} :
        WellFormed(f)}

Listings == {"asc", "desc"}

TreeConfigs ==
    [EXCLUDE_DIRS : {{}, {n_out}},
     INCLUDE_EXTENSIONS : {{x_py}},
     gitignore : {[present |-> FALSE, rules |-> {}],
                  [present |-> TRUE, rules |-> {}],
                  [present |-> TRUE, rules |-> {n_lib}]}]

\* max_depth: int = 3
DefaultMaxDepth == 3

\* The largest max_depth a caller passes, besides the default.
MaxDepthArg == 1

\* The directories a caller renders.
RenderDirs == {<<>>, <<n_src>>, <<n_out>>}

\* (skip_dirs, config_paths) as main builds them: relative path strings.
SkipChoices ==
    { [skip_dirs |-> {}, config_paths |-> {}],
      [skip_dirs |-> {Join(<<n_src, n_lib>>)}, config_paths |-> {}],
      [skip_dirs |-> {}, config_paths |-> {n_src, Join(<<n_src, n_out>>)}] }

TreeCalls(f) ==
    { [directory |-> d, file_types |-> ft, max_depth |-> md,
       skip_dirs |-> sc.skip_dirs, config_paths |-> sc.config_paths] :
        d \in RenderDirs \cap f.dirs,
        ft \in {{}, {x_log}, {x_py, x_log}},
        md \in (0..MaxDepthArg) \cup {DefaultMaxDepth},
        sc \in SkipChoices }

NoCall ==
    [directory |-> <<>>, file_types |-> {}, max_depth |-> 0,
     skip_dirs |-> {}, config_paths |-> {}]

NoRender ==
    [calls |-> 0, call |-> NoCall, lines |-> <<>>, prev |-> <<>>,
     listings |-> {}, rich |-> <<>>]

NoResolve ==
    [calls |-> 0, focus |-> <<>>, found |-> <<>>, log |-> <<>>,
     fallback |-> FALSE]

NoEmit == [calls |-> 0, focus_dirs |-> <<>>, log |-> <<>>]

NoDisk == [tree_files |-> {}, docs |-> {}, writes |-> <<>>]

NoConf == [yaml |-> NoDoc, manual |-> NoDoc]

NoUpdate ==
    [calls |-> 0, tree_text |-> <<>>, project_name |-> <<>>,
     before |-> NoDoc, directories |-> {}, ok |-> FALSE, raised |-> FALSE]

NoArgs ==
    [verify_config |-> FALSE, tree_input |-> FALSE, recurring |-> FALSE,
     local_agents |-> FALSE, project_title |-> <<>>, tree_text |-> <<>>,
     confirm |-> FALSE]

\* main before it starts.  exit is -1 while it runs; ended tells what ended
\* it ("fatal_..." for the handler of lines 298-302 and where the exception
\* came from); rendered lists the trees of the current iteration.
NoRun ==
    [pc |-> "none", args |-> NoArgs, exit |-> -1, ended |-> "",
     config_path |-> "", load |-> "", focus_dirs |-> <<>>,
     found_dirs |-> <<>>, i |-> 0, processed_dirs |-> {}, rendered |-> <<>>,
     iteration |-> 0]

InitTree ==
    /\ fs \in TreeFilesystems
    /\ listing \in Listings
    /\ cfg \in TreeConfigs
    /\ \E call \in TreeCalls(fs) : render = [NoRender EXCEPT !.call = call]
    /\ resolve = NoResolve
    /\ emit = NoEmit
    /\ disk = NoDisk
    /\ conf = NoConf
    /\ update = NoUpdate
    /\ run = NoRun

\* generator.generate_tree(directory, file_types, max_depth, skip_dirs,
\* config_paths) with the arguments drawn in render.call.  render.prev keeps
\* the lines the call before returned.
GenerateTree ==
    /\ render' =
          [render EXCEPT
              !.calls = IF render.calls = 0 THEN 1 ELSE 2,
              !.lines = generate_tree(render.call),
              !.prev = IF render.calls = 0 THEN <<>> ELSE <<render.lines>>,
              !.listings = render.listings \cup {listing}]
    /\ UNCHANGED <<fs, listing, cfg, resolve, emit, disk, conf, update, run>>

\* generator.generate_rich_tree with the same arguments, after generate_tree
\* as in main.
GenerateRichTree ==
    /\ render.calls > 0
    /\ render' = [render EXCEPT !.rich = <<generate_rich_tree(render.call)>>]
    /\ UNCHANGED <<fs, listing, cfg, resolve, emit, disk, conf, update, run>>

\* The OS lists the same entries in another order.
Relist ==
    /\ listing' \in Listings \ {listing}
    /\ UNCHANGED <<fs, cfg, render, resolve, emit, disk, conf, update, run>>

NextTree ==
    \/ GenerateTree
    \/ GenerateRichTree
    \/ Relist

Spec == InitTree /\ [][NextTree]_vars

---------------------------------------------------------------------------
\* Reading a tree drawing back: what each line says, from its text alone.

\* The column of the branch mark; the indentation before it holds only
\* "|" and " ".
BranchPos(line) ==
    CHOOSE i \in 1..Len(line) :
        /\ line[i] \in {"+", "L"}
        /\ \A j \in 1..(i - 1) : line[j] \in {"|", " "}

LineDepth(line) == (BranchPos(line) - 1) \div 4
LineIsDir(line) == line[Len(line)] = "/"
LineName(line) ==
    SubSeq(line, BranchPos(line) + 4,
           IF LineIsDir(line) THEN Len(line) - 1 ELSE Len(line))

\* The line of the directory that line i is drawn under (0: the rendered
\* directory itself).
LineParent(lines, i) ==
    IF LineDepth(lines[i]) = 0 THEN 0
    ELSE CHOOSE j \in 1..(i - 1) :
            /\ LineDepth(lines[j]) = LineDepth(lines[i]) - 1
            /\ \A k \in (j + 1)..(i - 1) :
                   LineDepth(lines[k]) >= LineDepth(lines[i])

\* The path, relative to the project root, of the entry line i is drawn for.
RECURSIVE LinePath(_, _, _)
LinePath(directory, lines, i) ==
    IF i = 0 THEN directory
    ELSE Append(LinePath(directory, lines, LineParent(lines, i)),
                LineName(lines[i]))

RenderedPaths ==
    {LinePath(render.call.directory, render.lines, i) :
        i \in 1..Len(render.lines)}

\* The entries of a drawing in order: depth, name, directory or file.
LineEntries(lines) ==
    [i \in 1..Len(lines) |->
        [depth |-> LineDepth(lines[i]), name |-> LineName(lines[i]),
         dir |-> LineIsDir(lines[i])]]

\* The same of a rich tree's nodes, parents before their children.
RECURSIVE RichEntries(_, _)
RichEntries(nodes, depth) ==
    IF nodes = <<>> THEN <<>>
    ELSE <<[depth |-> depth, name |-> Head(nodes).name,
            dir |-> Head(nodes).icon = "file_folder"]>>
         \o RichEntries(Head(nodes).children, depth + 1)
         \o RichEntries(Tail(nodes), depth)

Rendered == render.calls > 0

---------------------------------------------------------------------------
\* C1: for an exclude set containing the name X, generate_tree emits no line
\* for a directory named X nor for a file or directory located under a
\* directory named X.
C1_NoLineUnderExcludedName ==
    Rendered =>
        \A p \in RenderedPaths :
            \A k \in 1..Len(p) :
                p[k] \in cfg.EXCLUDE_DIRS => ~is_dir(SubSeq(p, 1, k))

\* C2 as stated: with the extension filter E, a file at most max_depth
\* directories below the rendered directory has a line if and only if its
\* name ends with a suffix of E.
FilesInReach ==
    {f \in fs.files :
        /\ Len(f) > Len(render.call.directory)
        /\ SubSeq(f, 1, Len(render.call.directory)) = render.call.directory
        /\ Len(f) - Len(render.call.directory) <= render.call.max_depth + 1}

InFilter(f) ==
    \E ext \in (IF render.call.file_types # {} THEN render.call.file_types
                ELSE cfg.INCLUDE_EXTENSIONS) : endswith(PathName(f), ext)

C2_FileShownIffSuffix ==
    Rendered => \A f \in FilesInReach : (f \in RenderedPaths) <=> InFilter(f)

\* An entry the renderer passes over: excluded by name, matched by the
\* ignore rules, in the skip set, or a directory whose relative path is a
\* prefix of a configured focus path.
PassedOver(p) ==
    \/ PathName(p) \in cfg.EXCLUDE_DIRS
    \/ \E k \in 1..Len(p) : p[k] \in IgnoreRules
    \/ RelStr(p) \in render.call.skip_dirs
    \/ p \in fs.dirs /\ \E cp \in render.call.config_paths :
                            startswith(cp, RelStr(p))

Reachable(f) ==
    \A k \in (Len(render.call.directory) + 1)..Len(f) :
        ~PassedOver(SubSeq(f, 1, k))

\* C2 (amended): a file in reach never has a line when its name ends with no
\* suffix of E, and has one when it does unless the file, or a directory
\* between it and the rendered directory, is passed over.
C2_FileShownIffSuffixAndReachable ==
    Rendered =>
        \A f \in FilesInReach :
            (f \in RenderedPaths) <=> (InFilter(f) /\ Reachable(f))

C2_Witness ==
    /\ Rendered
    /\ render.call.file_types # {}
    /\ \E f, g, h \in FilesInReach :
          /\ InFilter(f) /\ f \in RenderedPaths
          /\ ~InFilter(g) /\ g \notin RenderedPaths
          /\ InFilter(h) /\ h \notin RenderedPaths

\* Lines i < j drawn under the same directory.
Siblings(lines) ==
    {ij \in (1..Len(lines)) \X (1..Len(lines)) :
        /\ ij[1] < ij[2]
        /\ LineDepth(lines[ij[1]]) = LineDepth(lines[ij[2]])
        /\ LineParent(lines, ij[1]) = LineParent(lines, ij[2])}

\* C3 as stated: within every directory listed, directories come before
\* files, each group in ascending order of name.
C3_DirsBeforeFiles ==
    Rendered =>
        \A ij \in Siblings(render.lines) :
            LET a == render.lines[ij[1]]
                b == render.lines[ij[2]]
            IN  IF LineIsDir(a) = LineIsDir(b)
                THEN StrLT(LineName(a), LineName(b))
                ELSE LineIsDir(a)

\* C3 (amended): within every directory listed, files come before
\* directories, each group in ascending code-point order of name.
C3_FilesBeforeDirs ==
    Rendered =>
        \A ij \in Siblings(render.lines) :
            LET a == render.lines[ij[1]]
                b == render.lines[ij[2]]
            IN  IF LineIsDir(a) = LineIsDir(b)
                THEN StrLT(LineName(a), LineName(b))
                ELSE LineIsDir(b)

C3_Witness ==
    /\ Rendered
    /\ \E ij, kl, mn \in Siblings(render.lines) :
          /\ ~LineIsDir(render.lines[ij[1]]) /\ ~LineIsDir(render.lines[ij[2]])
          /\ LineIsDir(render.lines[kl[1]]) /\ LineIsDir(render.lines[kl[2]])
          /\ LineParent(render.lines, ij[1]) = LineParent(render.lines, kl[1])
          /\ LineParent(render.lines, mn[1]) # LineParent(render.lines, ij[1])

\* C4: for the same arguments the flat lines and the rich hierarchy hold the
\* same entries, in the same order and at the same nesting.
C4_FlatAndRichAgree ==
    (Rendered /\ render.rich # <<>>) =>
        LineEntries(render.lines) = RichEntries(render.rich[1].children, 0)

C4_Witness ==
    /\ Rendered
    /\ render.rich # <<>>
    /\ render.call.skip_dirs # {}
    /\ \E i, j \in 1..Len(render.lines) :
          /\ LineDepth(render.lines[i]) = 0
          /\ LineDepth(render.lines[j]) = 2
    /\ \E f \in FilesInReach : f \notin RenderedPaths

\* C5: a second call with the same arguments on the unchanged directory
\* returns the lines of the first, whatever order the entries are listed in.
C5_SameLinesAgain ==
    render.prev # <<>> => render.lines = render.prev[1]

C5_Witness ==
    /\ render.calls = 2
    /\ render.listings = Listings
    /\ render.prev # <<>>
    /\ Cardinality(Siblings(render.lines)) >= 3

---------------------------------------------------------------------------
\* The resolver's specifications: a project directory and a focus list are
\* drawn and find_focus_dirs is called.

n_a == <<"a">>
n_b == <<"b">>
n_c == <<"c">>
n_d == <<"d">>
n_e == <<"e">>
n_n == <<"n">>
n_an == <<"a", "n">>
n_dotx == <<".", "x">>
id_a_n == <<"a", "_", "n">>
id_zz == <<"y", "y">>

ResolveBase ==
    {DirEntry(<<n_a>>), DirEntry(<<n_a, n_b>>), DirEntry(<<n_a, n_b, n_c>>),
     DirEntry(<<n_d>>), DirEntry(<<n_d, n_e>>)}

ResolveUnits ==
    { {DirEntry(<<n_n>>)},
      {DirEntry(<<n_a, n_n>>)},
      {DirEntry(<<n_d, n_e, n_n>>)},
      {DirEntry(<<n_a, n_b, n_c, n_n>>)},
      {DirEntry(<<n_a, n_b, n_c, n_e>>), DirEntry(<<n_a, n_b, n_c, n_e, n_n>>)},
      {DirEntry(<<n_an>>)} }

Permissions ==
    { [locked |-> {}, dtype |-> TRUE],
      [locked |-> {<<n_a>>}, dtype |-> TRUE],
      [locked |-> {<<n_a>>}, dtype |-> FALSE] }

ResolveFilesystems ==
    { [MkFs(ResolveBase \cup UNION U) EXCEPT
          !.locked = perm.locked, !.dtype = perm.dtype] :
        U \in SUBSET ResolveUnits, perm \in Permissions }

\* The longest focus list drawn.
MaxFocus == 2

FocusLists(ids) == UNION {[1..k -> ids] : k \in 0..MaxFocus}

NoConfig ==
    [EXCLUDE_DIRS |-> {}, INCLUDE_EXTENSIONS |-> {},
     gitignore |-> [present |-> FALSE, rules |-> {}]]

InitResolve ==
    /\ fs \in ResolveFilesystems
    /\ listing \in Listings
    /\ cfg = NoConfig
    /\ render = NoRender
    /\ \E focus \in FocusLists({n_n, n_an, id_a_n, id_zz}) :
          resolve = [NoResolve EXCEPT !.focus = focus]
    /\ emit = NoEmit
    /\ disk = NoDisk
    /\ conf = NoConf
    /\ update = NoUpdate
    /\ run = NoRun

\* generator.find_focus_dirs(project_dir, focus_dirs)
FindFocusDirs ==
    /\ resolve.calls = 0
    /\ LET r == find_focus_dirs(resolve.focus)
       IN  resolve' = [resolve EXCEPT !.calls = 1, !.found = r.found,
                                      !.log = r.log, !.fallback = r.fallback]
    /\ UNCHANGED <<fs, listing, cfg, render, emit, disk, conf, update, run>>

NextResolve ==
    \/ FindFocusDirs
    \/ Relist

SpecResolve == InitResolve /\ [][NextResolve]_vars

---------------------------------------------------------------------------
\* The fallback scan's specification: directories with and without code
\* files, and focus lists of which at most one identifier resolves.

n_m_md == <<"m", ".", "m", "d">>

FallbackBase ==
    {DirEntry(<<n_a>>), DirEntry(<<n_a, n_b>>), DirEntry(<<n_a, n_b, n_c>>),
     DirEntry(<<n_a, n_b, n_c, n_e>>), DirEntry(<<n_a, n_b, n_c, n_e, n_n>>),
     DirEntry(<<n_out>>), DirEntry(<<n_dotx>>)}

FallbackUnits ==
    { {FileEntry(<<n_m_py>>)},
      {FileEntry(<<n_a, n_m_py>>), FileEntry(<<n_a, n_m_md>>)},
      {FileEntry(<<n_a, n_b, n_r_log>>)},
      {FileEntry(<<n_a, n_b, n_c, n_e, n_m_py>>)},
      {FileEntry(<<n_a, n_b, n_c, n_e, n_n, n_m_py>>)},
      {FileEntry(<<n_out, n_m_py>>)},
      {FileEntry(<<n_dotx, n_m_py>>)} }

FallbackFilesystems ==
    { [MkFs(FallbackBase \cup UNION U) EXCEPT
          !.locked = perm.locked, !.dtype = perm.dtype] :
        U \in SUBSET FallbackUnits, perm \in Permissions }

InitFallback ==
    /\ fs \in FallbackFilesystems
    /\ listing \in Listings
    /\ cfg = NoConfig
    /\ render = NoRender
    /\ \E focus \in {<<>>, <<id_zz>>, <<n_src, id_zz>>, <<n_b>>} :
          resolve = [NoResolve EXCEPT !.focus = focus]
    /\ emit = NoEmit
    /\ disk = NoDisk
    /\ conf = NoConf
    /\ update = NoUpdate
    /\ run = NoRun

SpecFallback == InitFallback /\ [][NextResolve]_vars

---------------------------------------------------------------------------
Resolved == resolve.calls > 0

\* The depths at which a directory called name lies below the project root.
MatchDepths(name) ==
    {Len(d) : d \in {x \in fs.dirs : x # <<>> /\ PathName(x) = name}}

\* C6: a bare name that matches directories at three different depths below
\* the root resolves to the match at the shallowest depth.
C6_ShallowestMatch ==
    (Resolved /\ fs.locked = {} /\ Len(resolve.focus) = 1) =>
        LET e == resolve.log[1]
            depths == MatchDepths(e.path[1])
        IN  (Len(e.path) = 1 /\ Cardinality(depths) >= 3) =>
                /\ e.dir # <<>>
                /\ \A k \in depths : Len(e.dir[1]) <= k

\* The identifiers of the list end in different names.
DistinctNames ==
    \A i, j \in 1..Len(resolve.log) :
        i # j => resolve.log[i].path[Len(resolve.log[i].path)]
                   # resolve.log[j].path[Len(resolve.log[j].path)]

\* C7: every identifier contributes the directory of the earliest strategy
\* of the cascade that succeeds for it, whatever the identifiers before it
\* resolved to.
C7_CascadeAlone ==
    (Resolved /\ fs.locked = {} /\ DistinctNames) =>
        \A i \in 1..Len(resolve.log) :
            resolve.log[i].dir = resolve_one(resolve.log[i].path, <<>>).dir

\* A directory holds a file with a recognized source extension.
HoldsCodeFile(d) ==
    \E f \in fs.files :
        /\ Parent(f) = d
        /\ \E ext \in code_extensions : endswith(PathName(f), ext)

NoneResolved ==
    \A i \in 1..Len(resolve.log) : resolve.log[i].dir = <<>>

\* C8 as stated: when no identifier resolves, the result is non-empty
\* whenever some directory of the project tree holds a recognized source
\* file.
C8_FallbackNonEmpty ==
    (Resolved /\ NoneResolved /\ \E d \in fs.dirs : HoldsCodeFile(d)) =>
        resolve.found # <<>>

\* A directory the fallback scan counts: below the root, at most 4 levels
\* deep, no component of its path an ignored or dot-prefixed name, and
\* every directory above it searchable.
Scanned(d) ==
    /\ d # <<>>
    /\ Len(d) <= CodeDepthLimit
    /\ \A k \in 1..Len(d) :
          d[k] \notin code_exclude_dirs /\ ~startswith(d[k], <<".">>)
    /\ \A k \in 0..(Len(d) - 1) : SubSeq(d, 1, k) \notin fs.locked

\* C8 (amended): when no identifier resolves, the result is non-empty
\* whenever some scanned directory holds a recognized source file.
C8_FallbackNonEmptyWhenScanned ==
    (Resolved /\ NoneResolved /\ \E d \in fs.dirs : Scanned(d) /\ HoldsCodeFile(d))
        => resolve.found # <<>>

C8_Witness ==
    /\ Resolved
    /\ NoneResolved
    /\ resolve.focus # <<>>
    /\ resolve.fallback
    /\ Len(resolve.found) = 1
    /\ Len(resolve.found[1]) = CodeDepthLimit
    /\ \E d \in fs.dirs : ~Scanned(d) /\ HoldsCodeFile(d)

\* C9: an error while resolving one identifier does not stop the loop:
\* every identifier of the list is attempted, in the sorted order, and
\* every directory an identifier resolved to is in the result.
C9_ErrorDoesNotAbort ==
    Resolved =>
        /\ Len(resolve.log) = Len(resolve.focus)
        /\ \A i \in 1..Len(resolve.log) :
              /\ resolve.log[i].path = normalized_focus_dirs(resolve.focus)[i]
              /\ resolve.log[i].dir # <<>> =>
                    \E k \in 1..Len(resolve.found) :
                        resolve.found[k] = resolve.log[i].dir[1]

C9_Witness ==
    /\ Resolved
    /\ Len(resolve.log) = 2
    /\ resolve.log[1].how = "error"
    /\ resolve.log[2].how \in {"exact", "name", "nested", "walk"}
    /\ resolve.found = resolve.log[2].dir

---------------------------------------------------------------------------
\* The emitter's specification: a project directory, the tree snapshots on
\* disk and a list of resolved directories are drawn, and
\* generate_agent_files is called.

n_a_n == <<"a", "_", "n">>

EmitBase == {DirEntry(<<n_a>>), DirEntry(<<n_a, n_b>>), DirEntry(<<n_d>>)}

EmitUnits ==
    { {DirEntry(<<n_a, n_n>>)},
      {DirEntry(<<n_a, n_b, n_n>>)},
      {DirEntry(<<n_a_n>>)},
      {DirEntry(<<n_d, n_n>>)} }

EmitFilesystems ==
    { [MkFs(EmitBase \cup UNION U) EXCEPT
          !.locked = perm.locked, !.dtype = perm.dtype] :
        U \in SUBSET EmitUnits, perm \in Permissions }

\* str(d.relative_to(project_dir)) of the directories the resolver may find.
EmitDirs ==
    {Join(<<n_a>>), Join(<<n_a, n_n>>), Join(<<n_a, n_b, n_n>>),
     Join(<<n_a_n>>), Join(<<n_d, n_n>>)}

\* The longest list of resolved directories drawn.
MaxResolved == 2

EmitLists == UNION {[1..k -> EmitDirs] : k \in 0..MaxResolved}

SnapshotChoices ==
    { {}, {[name |-> n_n, text |-> LastBranch \o n_m_py]} }

InitEmit ==
    /\ fs \in EmitFilesystems
    /\ listing \in Listings
    /\ cfg = NoConfig
    /\ render = NoRender
    /\ resolve = NoResolve
    /\ \E dirs \in EmitLists : emit = [NoEmit EXCEPT !.focus_dirs = dirs]
    /\ \E snap \in SnapshotChoices : disk = [NoDisk EXCEPT !.tree_files = snap]
    /\ conf = NoConf
    /\ update = NoUpdate
    /\ run = NoRun

\* generate_agent_files(focus_dirs, config_dir, project_dir, output_dir)
GenerateAgentFiles ==
    /\ emit.calls = 0
    /\ LET r == generate_agent_files(emit.focus_dirs, "project_dir")
       IN  /\ emit' = [emit EXCEPT !.calls = 1, !.log = r.log]
           /\ disk' = r.files
    /\ UNCHANGED <<fs, listing, cfg, render, resolve, conf, update, run>>

NextEmit ==
    \/ GenerateAgentFiles
    \/ Relist

SpecEmit == InitEmit /\ [][NextEmit]_vars

---------------------------------------------------------------------------
Emitted == emit.calls > 0

\* The directories of the list that exist, by position.
ExistingAt(i) == Stat(PathParts(emit.focus_dirs[i], <<>>)) = "dir"

\* Position i is the first of the list for its directory.
FirstOfDirectory(i) ==
    \A j \in 1..(i - 1) : emit.focus_dirs[j] # emit.focus_dirs[i]

\* C10 as stated: after one run every resolved directory that exists has
\* its own agent document, since no two distinct directories derive the
\* same document name.
C10_EveryDirectoryHasOwnDocument ==
    Emitted =>
        \A i \in 1..Len(emit.focus_dirs) :
            (ExistingAt(i) /\ FirstOfDirectory(i)) => emit.log[i].how = "created"

\* The document name the naming scheme gives a directory: agent_<first
\* segment>_<last segment>.md when its path has more than one segment, and
\* agent_<name>.md otherwise.
SchemeName(p) ==
    <<"a", "g", "e", "n", "t", "_">>
    \o (IF Len(p) >= 2 THEN p[1] \o <<"_">> \o p[Len(p)] ELSE NameOf(p))
    \o <<".", "m", "d">>

\* Position i is the first existing directory of the list with its
\* document name.
FirstOfName(i) ==
    \A j \in 1..(i - 1) :
        ExistingAt(j) =>
            SchemeName(PathParts(emit.focus_dirs[j], <<>>))
                # SchemeName(PathParts(emit.focus_dirs[i], <<>>))

\* C10 (amended): after one run a resolved directory that exists has its own
\* agent document exactly when no existing directory earlier in the list
\* derives the same document name; a directory whose name collides with an
\* earlier one is skipped and the document of that name is the earlier
\* directory's.
C10_FirstOfNameHasDocument ==
    Emitted =>
        \A i \in 1..Len(emit.focus_dirs) :
            ExistingAt(i) =>
                LET p == PathParts(emit.focus_dirs[i], <<>>)
                    first == CHOOSE k \in 1..i :
                                /\ ExistingAt(k)
                                /\ FirstOfName(k)
                                /\ SchemeName(PathParts(emit.focus_dirs[k], <<>>))
                                      = SchemeName(p)
                    owner == PathParts(emit.focus_dirs[first], <<>>)
                IN  /\ (emit.log[i].how = "created") <=> FirstOfName(i)
                    /\ (emit.log[i].how = "duplicate") <=> ~FirstOfName(i)
                    /\ \E d \in disk.docs :
                          /\ d.name = SchemeName(p)
                          /\ d.content.dir_name = NameOf(owner)
                          /\ d.content.within = parent_name_of(owner)

C10_Witness ==
    /\ Emitted
    /\ Len(emit.focus_dirs) = 2
    /\ emit.focus_dirs[1] # emit.focus_dirs[2]
    /\ emit.log[1].how = "created"
    /\ emit.log[2].how = "duplicate"
    /\ Cardinality(disk.docs) = 1

---------------------------------------------------------------------------
\* The directory at position i of the list, as path segments.
EmitDirAt(i) == PathParts(emit.focus_dirs[i], <<>>)

\* Position i derives the document name an earlier position wrote.
NameWrittenBefore(i) ==
    \E j \in 1..(i - 1) :
        /\ emit.log[j].how = "created"
        /\ SchemeName(EmitDirAt(j)) = SchemeName(EmitDirAt(i))

\* C11: within one call of generate_agent_files no document name is written
\* twice; a directory whose derived document name was already written in
\* this call is skipped, and the document of that name still describes the
\* directory that wrote it first.
C11_NoDocumentWrittenTwice ==
    Emitted =>
        /\ \A i, j \in 1..Len(disk.writes) :
              i # j => disk.writes[i] # disk.writes[j]
        /\ \A i \in 1..Len(emit.focus_dirs) :
              (ExistingAt(i) /\ NameWrittenBefore(i)) =>
                  /\ emit.log[i].how = "duplicate"
                  /\ \A j \in 1..(i - 1) :
                        (/\ emit.log[j].how = "created"
                         /\ SchemeName(EmitDirAt(j)) = SchemeName(EmitDirAt(i)))
                        => \E d \in disk.docs :
                              /\ d.name = SchemeName(EmitDirAt(i))
                              /\ d.content.dir_name = NameOf(EmitDirAt(j))
                              /\ d.content.within = parent_name_of(EmitDirAt(j))

C11_Witness ==
    /\ Emitted
    /\ \E i \in 1..Len(emit.focus_dirs) :
          /\ ExistingAt(i)
          /\ NameWrittenBefore(i)
          /\ \E j \in 1..(i - 1) :
                /\ emit.log[j].how = "created"
                /\ NameOf(EmitDirAt(j)) # NameOf(EmitDirAt(i))
                /\ disk.writes = <<SchemeName(EmitDirAt(j))>>

---------------------------------------------------------------------------
\* The config builder's specification: a config.yaml, a tree text and a
\* project title are drawn, and from_tree_text is called.

n_api == <<"a", "p", "i">>
n_docs == <<"d", "o", "c", "s">>
n_fonts == <<"f", "o", "n", "t", "s">>
n_Dist == <<"D", "i", "s", "t">>
t_old == <<"t">>
t_new == <<"p">>

\* The lines a tree text is made of, in the order they are pasted.
LinePool ==
    << MidBranch \o n_src \o <<"/">>,
       MidIndent \o LastBranch \o n_lib \o <<"/">>,
       n_api \o <<"/">>,
       LastBranch \o n_docs \o <<"/">>,
       n_fonts \o <<"/">>,
       n_Dist \o <<"/">>,
       n_dotx \o <<"/">>,
       LastBranch \o n_m_py,
       <<" ", " ", "/">> >>

TreeTexts ==
    { SelectSeq(LinePool, LAMBDA l : l \in S) : S \in SUBSET Range(LinePool) }

ExistingConfigs ==
    { NoDoc,
      OtherDoc,
      EmptyMapping,
      [EmptyMapping EXCEPT
          !.keys = {"project_title", "tree_focus", "exclude_dirs"},
          !.project_title = t_old,
          !.tree_focus = <<n_out>>,
          !.exclude_dirs = <<n_out, n_docs>>],
      [EmptyMapping EXCEPT
          !.keys = ConfigKeys,
          !.project_title = t_old,
          !.tree_focus = <<n_src>>,
          !.exclude_dirs = <<n_fonts>>,
          !.important_dirs = <<n_docs>>,
          !.include_extensions = <<x_py>>] }

ProjectTitles == {t_old, t_new}

InitConfig ==
    /\ fs = MkFs({})
    /\ listing = "asc"
    /\ cfg = NoConfig
    /\ render = NoRender
    /\ resolve = NoResolve
    /\ emit = NoEmit
    /\ disk = NoDisk
    /\ \E doc \in ExistingConfigs : conf = [NoConf EXCEPT !.yaml = doc]
    /\ \E text \in TreeTexts, title \in ProjectTitles :
          update = [NoUpdate EXCEPT !.tree_text = text,
                                    !.project_name = title]
    /\ run = NoRun

\* updater.from_tree_text(tree_text, args.project_title)
FromTreeText ==
    /\ update.calls = 0
    /\ LET r == from_tree_text(conf.yaml, update.tree_text,
                               update.project_name)
       IN  /\ conf' = [conf EXCEPT !.yaml = r.yaml]
           /\ update' = [update EXCEPT !.calls = 1,
                                       !.before = conf.yaml,
                                       !.directories = r.directories,
                                       !.ok = r.ok,
                                       !.raised = r.raised]
    /\ UNCHANGED <<fs, listing, cfg, render, resolve, emit, disk, run>>

NextConfig == FromTreeText

SpecConfig == InitConfig /\ [][NextConfig]_vars

---------------------------------------------------------------------------
Updated == update.calls > 0 /\ ~update.raised

\* The names the builder classifies as excluded among the discovered ones:
\* a standard exclude name or a binary/media folder name, whatever the case.
NewlyExcluded ==
    {d \in update.directories :
        \/ lower(d) \in {lower(e) : e \in Range(defaults_exclude_dirs)}
        \/ lower(d) \in media_dirs}

\* C16: from_tree_text over an existing configuration keeps every existing
\* exclude entry and adds the newly discovered ones, replaces project_title
\* and tree_focus by the new values, and keeps existing important_dirs and
\* include_extensions as they were.
C16_MergeKeepsExisting ==
    (Updated /\ update.before.kind = "mapping") =>
        /\ Range(conf.yaml.exclude_dirs)
              = Range(update.before.exclude_dirs) \cup NewlyExcluded
        /\ conf.yaml.project_title = update.project_name
        /\ conf.yaml.tree_focus = identify_focus_dirs(update.directories)
        /\ {"project_title", "tree_focus", "exclude_dirs"} \subseteq conf.yaml.keys
        /\ "important_dirs" \in update.before.keys =>
              conf.yaml.important_dirs = update.before.important_dirs
        /\ "include_extensions" \in update.before.keys =>
              conf.yaml.include_extensions = update.before.include_extensions

C16_Witness ==
    /\ Updated
    /\ update.before.kind = "mapping"
    /\ update.before.keys = ConfigKeys
    /\ update.before.project_title # update.project_name
    /\ update.before.tree_focus # conf.yaml.tree_focus
    /\ Range(update.before.exclude_dirs) \ NewlyExcluded # {}
    /\ NewlyExcluded \ Range(update.before.exclude_dirs) # {}
    /\ conf.yaml.important_dirs = <<n_docs>>

\* The discovered names that are a known important name or a common
\* top-level service/app name.
KnownNames ==
    update.directories
        \cap (Range(defaults_important_dirs) \cup Range(common_top))

\* C17: the focus list holds the discovered important and common top-level
\* names when at least one was discovered, and otherwise all discovered
\* names that are not in the standard exclude list.
C17_FocusList ==
    Updated =>
        /\ Range(conf.yaml.tree_focus) =
              IF KnownNames # {} THEN KnownNames
              ELSE update.directories \ Range(defaults_exclude_dirs)
        /\ Cardinality(Range(conf.yaml.tree_focus)) = Len(conf.yaml.tree_focus)

C17_Witness ==
    /\ Updated
    /\ KnownNames # {}
    /\ (KnownNames \cap Range(common_top)) \ Range(defaults_important_dirs) # {}
    /\ KnownNames \cap Range(defaults_important_dirs) # {}
    /\ update.directories \ (KnownNames \cup Range(defaults_exclude_dirs)) # {}
    /\ Len(conf.yaml.tree_focus) = Cardinality(KnownNames)

---------------------------------------------------------------------------
\* How many levels below the rendered directory the entry of line i lies:
\* 1 for its direct children.
LevelsBelow(i) ==
    Len(LinePath(render.call.directory, render.lines, i))
        - Len(render.call.directory)

\* Line i is the drawing of an entry of the directory tree: indentation,
\* a branch, the entry's name, and "/" for a directory.
IsEntryLine(i) ==
    LET line == render.lines[i]
        path == LinePath(render.call.directory, render.lines, i)
    IN  /\ \E b \in 1..Len(line) :
              /\ line[b] \in {"+", "L"}
              /\ \A j \in 1..(b - 1) : line[j] \in {"|", " "}
        /\ SubSeq(line, BranchPos(line), BranchPos(line) + 3)
              \in {MidBranch, LastBranch}
        /\ (BranchPos(line) - 1) % 4 = 0
        /\ IF LineIsDir(line) THEN path \in fs.dirs ELSE path \in fs.files

\* The directories at most max_depth + 1 levels below the rendered one.
DirsInReach ==
    {d \in fs.dirs :
        /\ Len(d) > Len(render.call.directory)
        /\ SubSeq(d, 1, Len(render.call.directory)) = render.call.directory
        /\ Len(d) - Len(render.call.directory) <= render.call.max_depth + 1}

\* C18 as stated: with max depth d no line is drawn for an entry more than d
\* levels below the rendered directory, and every line is an entry's.
C18_NoLineBelowMaxDepth ==
    Rendered =>
        \A i \in 1..Len(render.lines) :
            /\ IsEntryLine(i)
            /\ LevelsBelow(i) <= render.call.max_depth

\* C18 (amended): the contents of the directories at recursion depth 0..d
\* are listed, so a line is drawn for entries up to d + 1 levels below the
\* rendered directory and for none deeper; every directory within that
\* reach that is not passed over has its line, and every line is an
\* entry's: nothing marks the place where the recursion stops.
C18_ListsRecursionDepthZeroToMax ==
    Rendered =>
        /\ \A i \in 1..Len(render.lines) :
              /\ IsEntryLine(i)
              /\ LineDepth(render.lines[i]) <= render.call.max_depth
              /\ LevelsBelow(i) <= render.call.max_depth + 1
        /\ \A d \in DirsInReach : Reachable(d) => d \in RenderedPaths
        /\ Cardinality(RenderedPaths) = Len(render.lines)

C18_Witness ==
    /\ Rendered
    /\ render.call.max_depth = MaxDepthArg
    /\ \E i \in 1..Len(render.lines) :
          /\ LineIsDir(render.lines[i])
          /\ LevelsBelow(i) = render.call.max_depth + 1
          /\ \E p \in fs.dirs \cup fs.files :
                /\ Parent(p) = LinePath(render.call.directory, render.lines, i)
                /\ Reachable(p)
                /\ p \in fs.files => InFilter(p)
                /\ p \notin RenderedPaths
          /\ i < Len(render.lines) =>
                LineDepth(render.lines[i + 1]) <= LineDepth(render.lines[i])

---------------------------------------------------------------------------
\* main

n_app == <<"a", "p", "p">>

\* Lines 62-74 without --auto-config and --use-detected: config_manual.yaml,
\* or config.yaml when only that one exists.
config_path_of(c) ==
    IF c.manual.kind = "absent" /\ c.yaml.kind # "absent" THEN "yaml"
    ELSE "manual"

DocAt(c, path) == IF path = "yaml" THEN c.yaml ELSE c.manual

WriteDocAt(c, path, doc) ==
    IF path = "yaml" THEN [c EXCEPT !.yaml = doc] ELSE [c EXCEPT !.manual = doc]

\* Line 225.
default_focus == <<n_src, n_app>>

\* Lines 184-187.
default_config(project_title) ==
    [EmptyMapping EXCEPT !.keys = {"project_title", "tree_focus"},
                         !.project_title = project_title,
                         !.tree_focus = default_focus]

\* Lines 213-225: the focus list of an iteration, and whether it is the
\* configured one.
load_focus(doc) ==
    IF /\ doc.kind = "mapping"
       /\ "tree_focus" \in doc.keys
       /\ doc.focus_is_list
    THEN [load |-> "configured", focus_dirs |-> doc.tree_focus]
    ELSE [load |-> "default", focus_dirs |-> default_focus]

\* ProjectTreeGenerator.__init__ raises: config.yaml cannot be opened, or its
\* content has no get.
generator_raises(c) == c.yaml.kind # "mapping"

\* ProjectTreeGenerator.__init__, lines 24-26, of a config.yaml that is a
\* mapping.
generator_config(c) ==
    [cfg EXCEPT !.EXCLUDE_DIRS = Range(c.yaml.exclude_dirs),
                !.INCLUDE_EXTENSIONS = Range(c.yaml.include_extensions)]

project_missing_Never == FALSE

\* Line 200: not project_dir.exists()
project_missing == <<>> \notin fs.dirs

\* Line 239: str(Path(fd)) of every configured identifier.
config_paths_of(focus_dirs) ==
    {RelStr(PathParts(focus_dirs[k], <<>>)) : k \in DOMAIN focus_dirs}

has_dunder_part(rel_path) ==
    \E k \in DOMAIN rel_path : startswith(rel_path[k], <<"_", "_">>)

\* Lines 248-250.
already_in_parent_tree(rel_path, processed_dirs) ==
    \E pd \in processed_dirs :
        /\ ~has_dunder_part(rel_path)
        /\ startswith(RelStr(rel_path), RelStr(pd))

\* Lines 256-259.
skip_dirs_of(found_dirs, rel_path) ==
    {RelStr(d) : d \in {x \in Range(found_dirs) :
                          /\ startswith(RelStr(x), RelStr(rel_path))
                          /\ x # rel_path
                          /\ has_dunder_part(x)}}

\* dir_path.iterdir() and the sort key's is_file() of line 57 raise
\* PermissionError: the directory cannot be reached, or it can be listed but
\* its entries cannot be examined.
list_raises(d) ==
    \/ ~CanList(d)
    \/ d \in fs.locked /\ Children(d) # {}

\* generate_tree and generate_rich_tree raise out of the walk.
RECURSIVE tree_raises(_, _, _)
tree_raises(call, dir_path, depth) ==
    IF beyond_depth(depth, call.max_depth) THEN FALSE
    ELSE \/ list_raises(dir_path)
         \/ \E item \in Children(dir_path) :
               /\ is_dir(item)
               /\ ~TreeOmits(call, item)
               /\ tree_raises(call, item, depth + 1)

\* '\n'.join(tree_content)
RECURSIVE join_lines(_)
join_lines(lines) ==
    IF lines = <<>> THEN <<>>
    ELSE IF Len(lines) = 1 THEN lines[1]
    ELSE lines[1] \o <<"\n">> \o join_lines(Tail(lines))

\* Lines 283-284: tree_files/tree_<name>.txt is written.
write_tree_file(files, name, text) ==
    [files EXCEPT !.tree_files = {t \in files.tree_files : t.name # name}
                                 \cup {[name |-> name, text |-> text]}]

---------------------------------------------------------------------------
\* The pipeline's specification: a project directory, the configuration
\* files and the command line are drawn, and main runs step by step.

MainTree ==
    MkFs({DirEntry(<<n_src>>), FileEntry(<<n_src, n_m_py>>),
          DirEntry(<<n_src, n_lib>>), FileEntry(<<n_src, n_lib, n_o_py>>),
          DirEntry(<<n_src, n_lib, n_out>>),
          FileEntry(<<n_src, n_lib, n_out, n_m_py>>)})

MainTwins ==
    MkFs({DirEntry(<<n_a>>), DirEntry(<<n_a, n_n>>),
          FileEntry(<<n_a, n_n, n_m_py>>),
          DirEntry(<<n_d>>), DirEntry(<<n_d, n_n>>),
          FileEntry(<<n_d, n_n, n_o_py>>)})

MainDeep ==
    MkFs({DirEntry(<<n_src>>), FileEntry(<<n_src, n_m_py>>),
          DirEntry(<<n_a>>), DirEntry(<<n_a, n_b>>),
          DirEntry(<<n_a, n_b, n_n>>),
          FileEntry(<<n_a, n_b, n_n, n_o_py>>)})

\* The project directory does not exist.
NoProject == [dirs |-> {}, files |-> {}, locked |-> {}, dtype |-> TRUE]

MainFilesystems ==
    { MainTree, MainTwins, MainDeep,
      [MainDeep EXCEPT !.locked = {<<n_a, n_b>>}],
      NoProject }

GoodConfig(focus) ==
    [EmptyMapping EXCEPT
        !.keys = {"project_title", "tree_focus", "include_extensions"},
        !.project_title = t_old,
        !.tree_focus = focus,
        !.include_extensions = <<x_py>>]

MainFocusLists ==
    { <<n_src>>,
      <<n_src, Join(<<n_src, n_lib, n_out>>)>>,
      <<n_src, Join(<<n_src, n_lib>>)>>,
      <<Join(<<n_a, n_n>>), Join(<<n_d, n_n>>)>>,
      <<n_n, n_src>>,
      <<n_src, id_zz>> }

MainConfs ==
    { [yaml |-> GoodConfig(f), manual |-> NoDoc] : f \in MainFocusLists }
    \cup
    { [yaml |-> [EmptyMapping EXCEPT !.keys = {"include_extensions"},
                                     !.include_extensions = <<x_py>>],
       manual |-> NoDoc],
      [yaml |-> [GoodConfig(<<>>) EXCEPT !.focus_is_list = FALSE],
       manual |-> NoDoc],
      [yaml |-> OtherDoc, manual |-> NoDoc],
      [yaml |-> NoDoc, manual |-> NoDoc],
      [yaml |-> GoodConfig(<<n_src>>), manual |-> OtherDoc],
      [yaml |-> NoDoc, manual |-> GoodConfig(<<n_src>>)] }

MainTreeText == <<LinePool[1], LinePool[5]>>

MainArgs ==
    { [NoArgs EXCEPT !.verify_config = TRUE, !.project_title = t_new] }
    \cup
    { [NoArgs EXCEPT !.tree_input = ti, !.recurring = rec,
                     !.local_agents = la, !.confirm = yes,
                     !.project_title = t_new, !.tree_text = text] :
        ti \in BOOLEAN, rec \in BOOLEAN, la \in BOOLEAN, yes \in BOOLEAN,
        text \in {<<>>, MainTreeText} }

\* The iterations of the --recurring loop that are followed.
MaxIterations == 2

InitMain ==
    /\ fs \in MainFilesystems
    /\ listing \in Listings
    /\ cfg = NoConfig
    /\ render = NoRender
    /\ resolve = NoResolve
    /\ emit = NoEmit
    /\ disk = NoDisk
    /\ conf \in MainConfs
    /\ update = NoUpdate
    /\ \E a \in MainArgs :
          /\ (a.tree_text # <<>>) => a.tree_input
          /\ run = [NoRun EXCEPT !.pc = "start", !.args = a]

Exit(status, why) ==
    [run EXCEPT !.pc = "exit", !.exit = status, !.ended = why]

\* Lines 47-84: the configuration file is chosen; --verify-config prints it
\* and exits.
Start ==
    /\ run.pc = "start"
    /\ run' = IF run.args.verify_config
              THEN [Exit(0, "verify_config") EXCEPT
                       !.config_path = config_path_of(conf)]
              ELSE [run EXCEPT
                       !.config_path = config_path_of(conf),
                       !.pc = IF run.args.tree_input THEN "tree_input"
                              ELSE "default_config"]
    /\ UNCHANGED <<fs, listing, cfg, render, resolve, emit, disk, conf, update>>

\* Lines 122-146: the pasted tree text updates config.yaml, and the user is
\* asked whether to go on.  An exception of from_tree_text reaches the
\* handler of lines 298-302.
TreeInput ==
    /\ run.pc = "tree_input"
    /\ IF run.args.tree_text = <<>>
       THEN /\ run' = Exit(1, "no_tree_text")
            /\ UNCHANGED <<conf, update>>
       ELSE LET r == from_tree_text(conf.yaml, run.args.tree_text,
                                    run.args.project_title)
            IN  /\ conf' = [conf EXCEPT !.yaml = r.yaml]
                /\ update' = [update EXCEPT
                                 !.calls = 1,
                                 !.tree_text = run.args.tree_text,
                                 !.project_name = run.args.project_title,
                                 !.before = conf.yaml,
                                 !.directories = r.directories,
                                 !.ok = r.ok,
                                 !.raised = r.raised]
                /\ run' = IF r.raised THEN Exit(1, "fatal_update")
                          ELSE IF ~r.ok THEN Exit(1, "update_failed")
                          ELSE IF ~run.args.confirm THEN Exit(0, "declined")
                          ELSE [run EXCEPT !.pc = "default_config"]
    /\ UNCHANGED <<fs, listing, cfg, render, resolve, emit, disk>>

\* Lines 176-197: without a file at config_path the user is asked whether a
\* default one is to be written.
CreateDefaultConfig ==
    /\ run.pc = "default_config"
    /\ IF DocAt(conf, run.config_path).kind # "absent"
       THEN /\ run' = [run EXCEPT !.pc = "check"]
            /\ UNCHANGED conf
       ELSE IF ~run.args.confirm
       THEN /\ run' = Exit(1, "declined")
            /\ UNCHANGED conf
       ELSE /\ run' = [run EXCEPT !.pc = "check"]
            /\ conf' = WriteDocAt(conf, run.config_path,
                                  default_config(run.args.project_title))
    /\ UNCHANGED <<fs, listing, cfg, render, resolve, emit, disk, update>>

\* Lines 199-202.
CheckProject ==
    /\ run.pc = "check"
    /\ run' = IF project_missing THEN Exit(1, "project_missing")
              ELSE [run EXCEPT !.pc = "load", !.iteration = 1]
    /\ UNCHANGED <<fs, listing, cfg, render, resolve, emit, disk, conf, update>>

\* Lines 211-227: the focus list is loaded, and the generator constructed
\* from config.yaml.
LoadConfig ==
    /\ run.pc = "load"
    /\ LET l == load_focus(DocAt(conf, run.config_path))
       IN  IF generator_raises(conf)
           THEN /\ run' = [Exit(1, "fatal_generator") EXCEPT
                              !.load = l.load, !.focus_dirs = l.focus_dirs]
                /\ UNCHANGED cfg
           ELSE /\ run' = [run EXCEPT !.pc = "find", !.load = l.load,
                                      !.focus_dirs = l.focus_dirs]
                /\ cfg' = generator_config(conf)
    /\ UNCHANGED <<fs, listing, render, resolve, emit, disk, conf, update>>

\* Lines 229-241.
FindFocus ==
    /\ run.pc = "find"
    /\ LET r == find_focus_dirs(run.focus_dirs)
       IN  /\ resolve' = [resolve EXCEPT !.calls = 1,
                                         !.focus = run.focus_dirs,
                                         !.found = r.found, !.log = r.log,
                                         !.fallback = r.fallback]
           /\ run' = [run EXCEPT !.pc = "trees", !.found_dirs = r.found,
                                 !.i = 1, !.processed_dirs = {},
                                 !.rendered = <<>>]
    /\ UNCHANGED <<fs, listing, cfg, render, emit, disk, conf, update>>

\* Lines 243-286 for one directory of found_dirs: its tree is rendered and
\* written to tree_files, unless a processed directory's path is a prefix
\* of its own.  An exception of the renderers reaches lines 298-302.
RenderOne ==
    /\ run.pc = "trees"
    /\ run.i <= Len(run.found_dirs)
    /\ LET rel_path == run.found_dirs[run.i]
           call == [directory |-> rel_path, file_types |-> {},
                    max_depth |-> DefaultMaxDepth,
                    skip_dirs |-> skip_dirs_of(run.found_dirs, rel_path),
                    config_paths |-> config_paths_of(run.focus_dirs)]
       IN  IF already_in_parent_tree(rel_path, run.processed_dirs)
           THEN /\ run' = [run EXCEPT !.i = run.i + 1]
                /\ UNCHANGED <<render, disk>>
           ELSE IF tree_raises(call, rel_path, 0)
           THEN /\ run' = Exit(1, "fatal_render")
                /\ UNCHANGED <<render, disk>>
           ELSE /\ render' = [render EXCEPT
                                 !.calls = 1, !.call = call,
                                 !.lines = generate_tree(call),
                                 !.rich = <<generate_rich_tree(call)>>]
                /\ disk' = write_tree_file(disk, NameOf(rel_path),
                                           join_lines(generate_tree(call)))
                /\ run' = [run EXCEPT
                              !.i = run.i + 1,
                              !.processed_dirs = run.processed_dirs
                                                     \cup {rel_path},
                              !.rendered = Append(run.rendered,
                                  [directory |-> rel_path, call |-> call,
                                   lines |-> generate_tree(call)])]
    /\ UNCHANGED <<fs, listing, cfg, resolve, emit, conf, update>>

\* Lines 288-293: the agent documents are generated; without --recurring
\* main returns.
EmitAgents ==
    /\ run.pc = "trees"
    /\ run.i > Len(run.found_dirs)
    /\ LET dirs == [k \in DOMAIN run.found_dirs |-> RelStr(run.found_dirs[k])]
           r == generate_agent_files(dirs,
                    IF run.args.local_agents THEN "config_dir"
                    ELSE "project_dir")
       IN  /\ disk' = r.files
           /\ emit' = [emit EXCEPT !.calls = 1, !.focus_dirs = dirs,
                                   !.log = r.log]
    /\ run' = IF run.args.recurring THEN [run EXCEPT !.pc = "sleep"]
              ELSE Exit(0, "done")
    /\ UNCHANGED <<fs, listing, cfg, render, resolve, conf, update>>

\* Lines 295-296 and back to line 211.
NextIteration ==
    /\ run.pc = "sleep"
    /\ run.iteration < MaxIterations
    /\ run' = [run EXCEPT !.pc = "load", !.iteration = run.iteration + 1]
    /\ UNCHANGED <<fs, listing, cfg, render, resolve, emit, disk, conf, update>>

NextMain ==
    \/ Start
    \/ TreeInput
    \/ CreateDefaultConfig
    \/ CheckProject
    \/ LoadConfig
    \/ FindFocus
    \/ RenderOne
    \/ EmitAgents
    \/ NextIteration

SpecMain == InitMain /\ [][NextMain]_vars

---------------------------------------------------------------------------
\* The iteration's loop over found_dirs is over.
TreesDone ==
    \/ run.pc = "trees" /\ run.i > Len(run.found_dirs)
    \/ run.pc = "sleep"
    \/ run.pc = "exit" /\ run.ended = "done"

\* The iteration's documents are written.
IterationDone ==
    \/ run.pc = "sleep"
    \/ run.pc = "exit" /\ run.ended = "done"

\* C12: agent documents go to the project directory by default and to the
\* alternate output directory, not the project directory, under
\* --local-agents.
C12_DocumentsInOutputDirectory ==
    IterationDone =>
        \A d \in disk.docs :
            d.at = IF run.args.local_agents THEN "config_dir"
                   ELSE "project_dir"

\* C13: when the selected configuration cannot be loaded as a mapping with a
\* tree_focus list, the run goes on with the default focus list: it is not
\* ended by the construction of the generator.
C13_LoadFailureFallsBack ==
    run.load = "default" =>
        /\ run.focus_dirs = default_focus
        /\ run.ended # "fatal_generator"
        /\ run.pc = "exit" => resolve.calls > 0

NoProjectDirectory == <<>> \notin fs.dirs

NothingResolvedOrWritten ==
    /\ resolve.calls = 0
    /\ emit.calls = 0
    /\ disk.tree_files = {}
    /\ disk.docs = {}
    /\ disk.writes = <<>>

Healthy(k) ==
    LET d == run.found_dirs[k]
    IN  /\ Stat(d) = "dir"
        /\ CanList(d)
        /\ d \notin fs.locked
        /\ \A j \in DOMAIN run.found_dirs :
              j # k =>
                  /\ SchemeName(run.found_dirs[j]) # SchemeName(d)
                  /\ ~startswith(RelStr(d), RelStr(run.found_dirs[j]))

HasSnapshot(d) ==
    /\ \E k \in DOMAIN run.rendered : run.rendered[k].directory = d
    /\ \E t \in disk.tree_files : t.name = NameOf(d)

HasDocument(d) == \E doc \in disk.docs : doc.name = SchemeName(d)

\* C15: a failure confined to one resolved directory is skipped: once the
\* directories are resolved the run completes, and every resolved directory
\* without a failure of its own has its tree snapshot and agent document.
C15_FailureIsSkipped ==
    (/\ resolve.calls > 0
     /\ run.pc \in {"exit", "sleep"}
     /\ \E k \in DOMAIN run.found_dirs : Healthy(k)) =>
        /\ run.ended \in {"", "done"}
        /\ \A k \in DOMAIN run.found_dirs :
              Healthy(k) => /\ HasSnapshot(run.found_dirs[k])
                            /\ HasDocument(run.found_dirs[k])

\* The paths of the entries a drawing has lines for.
PathsOf(directory, lines) ==
    {LinePath(directory, lines, i) : i \in 1..Len(lines)}

\* A subdirectory p that the rendering r of a focus directory comes to: it
\* is within the depth limit and its parent is the focus directory or has a
\* line.
ComesTo(r, p) ==
    /\ p \in fs.dirs
    /\ Len(p) > Len(r.directory)
    /\ Len(p) - Len(r.directory) <= r.call.max_depth + 1
    /\ \/ Parent(p) = r.directory
       \/ Parent(p) \in PathsOf(r.directory, r.lines)

\* C19: of the subdirectories a rendering comes to, those not excluded by
\* name, not ignored and not in the skip set have a line, except the
\* configured focus paths that are rendered separately.
C19_OnlySeparateFocusPathsOmitted ==
    TreesDone =>
        \A k \in DOMAIN run.rendered :
            LET r == run.rendered[k]
            IN  \A p \in fs.dirs :
                    (/\ ComesTo(r, p)
                     /\ PathName(p) \notin cfg.EXCLUDE_DIRS
                     /\ ~\E n \in 1..Len(p) : p[n] \in IgnoreRules
                     /\ RelStr(p) \notin r.call.skip_dirs) =>
                        \/ p \in PathsOf(r.directory, r.lines)
                        \/ /\ RelStr(p) \in r.call.config_paths
                           /\ \E j \in DOMAIN run.rendered :
                                 run.rendered[j].directory = p

\* C20: the tree text in the document of a resolved directory whose tree
\* was rendered in this iteration is the text of that rendering.
C20_DocumentEmbedsOwnSnapshot ==
    IterationDone =>
        \A k \in DOMAIN emit.log :
            emit.log[k].how = "created" =>
                \A j \in DOMAIN run.rendered :
                    run.rendered[j].directory = emit.log[k].dir_path =>
                        \E doc \in disk.docs :
                            /\ doc.name = emit.log[k].agent_name
                            /\ doc.content.tree_content
                                  = join_lines(run.rendered[j].lines)

---------------------------------------------------------------------------
\* The configuration written holds the two lists as the builder computed
\* them: there was no existing exclude list to merge with.
ListsAsComputed ==
    /\ Updated
    /\ "exclude_dirs" \notin update.before.keys
    /\ update.before.kind \in {"absent", "mapping"}

\* C21: the focus list and the exclude list that from_tree_text computes
\* from the discovered directory names are disjoint: no name is in both.
C21_FocusAndExcludeDisjoint ==
    ListsAsComputed =>
        Range(conf.yaml.tree_focus) \cap Range(conf.yaml.exclude_dirs) = {}

============================================================================
